---- MODULE Spec2Model ----
(***************************************************************************)
(* Model of WAVSource (src/src/source.cpp): the settings normalisation of  *)
(* get_settings, the teardown and rebuild done by update, the capture      *)
(* buffers filled by capture_audio, the audio capture registration of      *)
(* recapture_audio / release_audio_capture, the locking of render, the     *)
(* resampling and mapping done by render_curve and render_bars, and the    *)
(* destructor.                                                             *)
(*                                                                         *)
(* Three threads of the host call into one instance: the thread that       *)
(* constructs and updates it, the graphics thread (tick, render) and the   *)
(* audio thread (capture_audio).  m_mtx serialises them.                   *)
(*                                                                         *)
(* Representation choices:                                                 *)
(*  - a circlebuf of raw floats is a sequence of samples; its byte size is *)
(*    sizeof(float) times its length (every push and pop of the code is a  *)
(*    whole number of samples);                                            *)
(*  - a float of the index table is an integer number of 1/FX units,       *)
(*    rounded down, or the value NaN;                                          *)
(*  - a decibel value and an entry of an output buffer are floats of the   *)
(*    same kind; the spectrum is written by tick, whose code is outside    *)
(*    src/, so every spectrum the model renders is the one update leaves;  *)
(*  - the settings objects keep the Gaussian filter and the Lanczos        *)
(*    resampling off: apply_filter and lanczos_interp are outside src/;    *)
(*  - size_t wraps at 2^SizeTBits (TLC integers have 32 bits, so the 64    *)
(*    bits of the build cannot be represented).                            *)
(***************************************************************************)
EXTENDS Integers, Sequences, FiniteSets, TLC

\* ---------------------------------------------------------------- bounds
MaxCalls    == 3   \* calls of update (the constructor's included), capture_audio and tick
MaxSources  == 1   \* audio sources the host creates under the name "mic"
FX          == 8   \* resolution of a modelled float: 1/FX
SizeTBits   == 20  \* modelled width of size_t

\* ------------------------------------------------------ program constants
SIZEOF_FLOAT       == 4
MIN_FFT_SIZE       == 128
FFT_ALIGN          == 16
DEFAULT_CUTOFF_LOW == 120
DEFAULT_CUTOFF_HIGH == 17500
DEFAULT_FLOOR      == -120
DEFAULT_CEILING    == 0
FALLBACK_SAMPLE_RATE == 44100
FALLBACK_FPS       == 60
MAX_CAPTURE_CHANNELS == 2
NUM_CAPTUREBUFS    == 2
DB_MIN             == -759   \* 20 * log10(FLT_MIN), in dB

\* the float that 0.0f / 0.0f yields, told apart from every modelled value
NaN == -1000000
IsNaN(f) == f = NaN

NoSource == 0

\* a second audio source of the host, named "aux", that lives throughout
AuxSource == 100

Min(a, b) == IF a < b THEN a ELSE b
Max(a, b) == IF a < b THEN b ELSE a

RECURSIVE Pow(_, _)
Pow(x, n) == IF n = 0 THEN 1 ELSE x * Pow(x, n - 1)

\* a run of n samples: zeros, or samples numbered from `first`
Zeros(n) == [k \in 1..n |-> 0]
Stamped(first, n) == [k \in 1..n |-> first + k - 1]

\* the last n elements of s (all of s when it has fewer)
Suffix(s, n) == IF Len(s) <= n THEN s ELSE SubSeq(s, Len(s) - n + 1, Len(s))

\* ------------------------------------------------------------- integers
\* (size_t)v for a signed v
ToSizeT(v) == v % Pow(2, SizeTBits)

\* x & -16 on a size_t
AlignDown(x) == x - (x % FFT_ALIGN)

\* ------------------------------------------------------------- circlebuf
cb_size(buf) == Len(buf) * SIZEOF_FLOAT

circlebuf_push_back(buf, data, sz) == buf \o SubSeq(data, 1, sz \div SIZEOF_FLOAT)

circlebuf_push_back_zero(buf, sz) == buf \o Zeros(sz \div SIZEOF_FLOAT)

circlebuf_pop_front(buf, sz) == SubSeq(buf, (sz \div SIZEOF_FLOAT) + 1, Len(buf))

\* ---------------------------------------------------------------- floats
\* std::clamp on modelled floats
Clamp(v, lo, hi) == IF v < lo THEN lo ELSE IF hi < v THEN hi ELSE v

\* (float)cutoff * fft_size / sr
BinOf(cutoff, fft_size, sr) == (cutoff * fft_size * FX) \div sr

\* (float)i / (float)n as a fraction; 0/0 is the NaN of the division
FloatDiv(i, n) == [num |-> i, den |-> n]
IsNaNFraction(t) == t.num = 0 /\ t.den = 0

\* lerp(a, b, t): a + (b - a) * t; a NaN t gives NaN
lerp(a, b, t) ==
    IF IsNaNFraction(t) THEN NaN ELSE a + ((b - a) * t.num) \div t.den

\* log_interp(a, b, t): a * (b/a)^t, rounded down; a NaN t gives NaN
log_interp(a, b, t) ==
    IF IsNaNFraction(t) THEN NaN
    ELSE LET rhs == Pow(a, t.den - t.num) * Pow(b, t.num)
         IN  CHOOSE v \in Min(a, b)..Max(a, b) :
                 /\ Pow(v, t.den) <= rhs
                 /\ (v = Max(a, b) \/ Pow(v + 1, t.den) > rhs)

\* (int)f of a modelled float
Trunc(f) == f \div FX

\* ------------------------------------------------------ inputs and host
\* get_audio_channels(speakers) of libobs
get_audio_channels(speakers) ==
    CASE speakers = "MONO"    -> 1
      [] speakers = "STEREO"  -> 2
      [] speakers = "5POINT1" -> 6
      [] OTHER                -> 0   \* SPEAKERS_UNKNOWN

\* the fields of the settings object that the modelled code depends on
BaseSettings ==
    [audio_src |-> "mic", display |-> "curve", width |-> 4, log_scale |-> FALSE,
     stereo |-> FALSE, fft_size |-> 128, auto_fft_size |-> FALSE,
     interp |-> "point", cutoff_low |-> 30, cutoff_high |-> 17500,
     floor |-> -65, ceiling |-> 0, bar_width |-> 2, bar_gap |-> 1, height |-> 6,
     render_mode |-> "line", tsmoothing |-> "none"]

\* what the host answers to obs_get_audio_info and obs_get_video_info
HostMono ==
    [audio_ok |-> TRUE, samples_per_sec |-> 44100, speakers |-> "MONO",
     video_ok |-> TRUE, fps_num |-> 60, fps_den |-> 1]
HostStereo ==
    [audio_ok |-> TRUE, samples_per_sec |-> 48000, speakers |-> "STEREO",
     video_ok |-> TRUE, fps_num |-> 240, fps_den |-> 1]
HostFast ==
    [audio_ok |-> TRUE, samples_per_sec |-> 48000, speakers |-> "UNKNOWN",
     video_ok |-> TRUE, fps_num |-> 480, fps_den |-> 1]
HostSurround ==
    [audio_ok |-> TRUE, samples_per_sec |-> 44100, speakers |-> "5POINT1",
     video_ok |-> TRUE, fps_num |-> 120, fps_den |-> 1]
HostNoInfo ==
    [audio_ok |-> FALSE, samples_per_sec |-> 0, speakers |-> "UNKNOWN",
     video_ok |-> FALSE, fps_num |-> 0, fps_den |-> 0]

\* the calls of update: a settings object s and the host's answers h
Scenarios ==
    { [s |-> BaseSettings, h |-> HostMono],
      [s |-> [BaseSettings EXCEPT !.display = "bars", !.width = 7, !.log_scale = TRUE,
                  !.render_mode = "solid", !.tsmoothing = "exponential",
                  !.fft_size = 100, !.cutoff_low = 500, !.cutoff_high = 500],
       h |-> HostSurround],
      [s |-> [BaseSettings EXCEPT !.display = "stepped_bars", !.width = 32,
                  !.bar_width = 256, !.bar_gap = 0, !.audio_src = "none",
                  !.fft_size = 200, !.cutoff_low = 2000, !.cutoff_high = 1000],
       h |-> HostNoInfo],
      [s |-> [BaseSettings EXCEPT !.width = 1, !.audio_src = "ghost",
                  !.auto_fft_size = TRUE, !.cutoff_low = 100, !.cutoff_high = 101],
       h |-> HostNoInfo],
      [s |-> [BaseSettings EXCEPT !.display = "bars", !.width = 7, !.bar_width = 3,
                  !.stereo = TRUE, !.render_mode = "gradient", !.audio_src = "aux", !.fft_size = 130, !.cutoff_low = 4000,
                  !.cutoff_high = 9000],
       h |-> HostStereo],
      [s |-> [BaseSettings EXCEPT !.display = "bars", !.bar_width = 0, !.bar_gap = 0,
                  !.cutoff_low = -10, !.cutoff_high = -5],
       h |-> HostMono],
      [s |-> [BaseSettings EXCEPT !.width = 3, !.log_scale = TRUE,
                  !.render_mode = "solid", !.floor = 0, !.ceiling = 0,
                  !.auto_fft_size = TRUE, !.fft_size = 4096],
       h |-> HostFast] }

\* frame counts of the audio_data passed to capture_audio
FrameCounts == {0, 100, 300}

\* ----------------------------------------------------------------- state
VARIABLES
    m,                \* the scalar members m_* of the instance
    m_capturebufs,    \* m_capturebufs[i]: the samples held, oldest first
    m_decibels,       \* m_decibels[i]: the spectrum in dB, empty when reset
    m_tsmooth_buf,    \* m_tsmooth_buf[i]: the smoothing state, empty when reset
    m_interp_indices, \* the index table
    m_interp_bufs,    \* m_interp_bufs[i]: the output buffer of render
    m_mtx,            \* holder of m_mtx: "none", "update", "render"
    upd,              \* the thread running update: position and arguments
    rnd,              \* the thread running render: position and mode read
    host_live,        \* the live audio source named "mic", or NoSource
    host_next,        \* sources created so far
    registered,       \* sources on which callbacks::capture_audio is registered
    log,              \* warnings written by the last step, and in this streak
    cap,              \* how the capture_audio call of the last step ended
    hist,             \* hist[i]: all samples pushed to buffer i since its reset
    calls,            \* number of calls made so far
    constructed,      \* the constructor has returned
    fault             \* the process has faulted

vars == <<m, m_capturebufs, m_decibels, m_tsmooth_buf, m_interp_indices, m_interp_bufs, m_mtx,
          upd, rnd, host_live, host_next, registered, log, cap, hist, calls,
          constructed, fault>>

Chan == 0..(NUM_CAPTUREBUFS - 1)

\* the part of the state that recapture_audio and release_audio_capture work on
Audio == [m |-> m, bufs |-> m_capturebufs, reg |-> registered, log |-> log, hist |-> hist]

\* obs_get_source_by_name
obs_get_source_by_name(name) ==
    IF name = "mic" THEN host_live
    ELSE IF name = "aux" THEN AuxSource
    ELSE NoSource

\* obs_weak_source_get_source: the source while it is alive
obs_weak_source_get_source(weak) ==
    IF weak # NoSource /\ (weak = host_live \/ weak = AuxSource) THEN weak ELSE NoSource

\* ---------------------------------------------------------- get_settings
\* a comparison that lets equal cutoffs through
NormCutoff_Strict(low, high) ==
    IF (high - low) < 0
    THEN [low |-> DEFAULT_CUTOFF_LOW, high |-> DEFAULT_CUTOFF_HIGH]
    ELSE [low |-> low, high |-> high]

\* the window size: at least 128, aligned down to a multiple of 16
NormFFTSize(requested) ==
    LET sz == ToSizeT(requested)
    IN  IF sz < MIN_FFT_SIZE THEN MIN_FFT_SIZE
        ELSE IF sz % FFT_ALIGN # 0 THEN AlignDown(sz)
        ELSE sz

\* the cutoff pair: the defaults when high - low < 1
NormCutoff(low, high) ==
    IF (high - low) < 1
    THEN [low |-> DEFAULT_CUTOFF_LOW, high |-> DEFAULT_CUTOFF_HIGH]
    ELSE [low |-> low, high |-> high]

\* the floor/ceiling pair: the defaults when ceiling - floor < 1
NormRange(flr, ceil) ==
    IF (ceil - flr) < 1
    THEN [floor |-> DEFAULT_FLOOR, ceiling |-> DEFAULT_CEILING]
    ELSE [floor |-> flr, ceiling |-> ceil]

\* (the modelled widths and bar sizes are not negative, so their casts to
\* unsigned int and int change nothing)
get_settings(mm, s) ==
    LET cut == NormCutoff(s.cutoff_low, s.cutoff_high)
        rng == NormRange(s.floor, s.ceiling)
    IN  [mm EXCEPT
            !.width = s.width,
            !.log_scale = s.log_scale,
            !.stereo = s.stereo,
            !.fft_size = NormFFTSize(s.fft_size),
            !.auto_fft_size = s.auto_fft_size,
            !.cutoff_low = cut.low,
            !.cutoff_high = cut.high,
            !.floor = rng.floor,
            !.ceiling = rng.ceiling,
            !.bar_width = s.bar_width,
            !.bar_gap = s.bar_gap,
            !.audio_source_name = s.audio_src,
            !.height = s.height,
            !.tsmoothing = IF s.tsmoothing = "exponential" THEN "exponential" ELSE "none",
            !.render_mode = IF s.render_mode = "line" THEN "line"
                            ELSE IF s.render_mode = "solid" THEN "solid"
                            ELSE "gradient",
            !.interp_mode = IF s.interp = "lanczos" THEN "lanczos" ELSE "point",
            !.display_mode = IF s.display = "bars" THEN "bars"
                             ELSE IF s.display = "stepped_bars" THEN "stepped_bars"
                             ELSE "curve"]

\* ------------------------------------------ capture registration, buffers
\* a release that drops the reference and leaves the callback registered
release_audio_capture_KeepsCallback(a) ==
    [a EXCEPT
        !.m.audio_source = NoSource,
        !.bufs = [i \in Chan |-> <<>>],
        !.hist = [i \in Chan |-> <<>>]]

release_audio_capture(a) ==
    LET src == obs_weak_source_get_source(a.m.audio_source)
    IN  [a EXCEPT
            !.m.audio_source = NoSource,
            !.reg = IF src # NoSource THEN a.reg \ {src} ELSE a.reg,
            !.bufs = [i \in Chan |-> <<>>],
            !.hist = [i \in Chan |-> <<>>]]

\* a warning on every failed attempt
LogsFailure_Always(retries) == retries >= 0

\* the warning of recapture_audio is written when the counter was 0
LogsFailure(retries) == retries = 0

recapture_audio(a0) ==
    LET a    == release_audio_capture(a0)
        name == a.m.audio_source_name
        asrc == obs_get_source_by_name(name)
    IN  IF asrc # NoSource
        THEN [a EXCEPT !.reg = a.reg \cup {asrc}, !.m.audio_source = asrc]
        ELSE IF name # "none"
        THEN [a EXCEPT !.m.retries = a.m.retries + 1,
                       !.log.last = IF LogsFailure(a.m.retries)
                                    THEN a.log.last \cup {"source"} ELSE a.log.last,
                       !.log.streak = IF LogsFailure(a.m.retries)
                                      THEN a.log.streak + 1 ELSE a.log.streak]
        ELSE a

\* --------------------------------------------------------------- free_fft
free_fft(mm) == [mm EXCEPT !.fft_size = 0]

\* ------------------------------------------------------------ init_interp
init_interp(mm, sz) ==
    LET maxbin  == (mm.fft_size \div 2) - 1
        sr      == mm.samples_per_sec
        lowbin  == Clamp(BinOf(mm.cutoff_low, mm.fft_size, sr), 1 * FX, maxbin * FX)
        highbin == Clamp(BinOf(mm.cutoff_high, mm.fft_size, sr), 1 * FX, maxbin * FX)
    IN  [k \in 1..sz |->
            IF mm.log_scale
            THEN log_interp(lowbin, highbin, FloatDiv(k - 1, sz - 1))
            ELSE lerp(lowbin, highbin, FloatDiv(k - 1, sz - 1))]

\* ------------------------------------------------------------------ Init
\* the members of an instance when the constructor is about to call update
NewInstance ==
    /\ m = [width |-> 0, log_scale |-> FALSE, stereo |-> FALSE, fft_size |-> 0,
            auto_fft_size |-> FALSE, interp_mode |-> "point", cutoff_low |-> 0,
            cutoff_high |-> 0, floor |-> 0, ceiling |-> 0, display_mode |-> "curve",
            bar_width |-> 0, bar_gap |-> 0, audio_source_name |-> "",
            audio_source |-> NoSource, capture_channels |-> 0,
            output_channels |-> 0, num_bars |-> 0, retries |-> 0,
            last_silent |-> FALSE, samples_per_sec |-> 0, fps_num |-> 0,
            fps_den |-> 1, height |-> 0, render_mode |-> "line",
            tsmoothing |-> "none"]
    /\ m_capturebufs = [i \in Chan |-> <<>>]
    /\ m_decibels = [i \in Chan |-> <<>>]
    /\ m_tsmooth_buf = [i \in Chan |-> <<>>]
    /\ m_interp_indices = <<>>
    /\ m_interp_bufs = [i \in Chan |-> <<>>]
    /\ m_mtx = "none"
    /\ rnd = [pc |-> "idle", mode |-> "curve"]
    /\ registered = {}
    /\ log = [last |-> {}, streak |-> 0]
    /\ cap = "none"
    /\ hist = [i \in Chan |-> <<>>]
    /\ calls = 0
    /\ constructed = FALSE
    /\ fault = FALSE

\* a new instance; the host may already have a source named "mic"
Init ==
    /\ NewInstance
    /\ upd = [pc |-> "idle", settings |-> BaseSettings, info |-> HostNoInfo]
    /\ host_live \in {NoSource, 1}
    /\ host_next = host_live

\* ---------------------------------------------------------------- update
\* a lock scope that ends once the old state is torn down
UpdateLockScope_TeardownOnly(pc) == IF pc \in {"idle", "settings", "alloc", "interp"} THEN "none" ELSE "update"

\* the holder of m_mtx while update is at pc: the lock_guard of update lives
\* until update returns
UpdateLockScope(pc) == IF pc = "idle" THEN "none" ELSE "update"

\* std::lock_guard lock(m_mtx) of update, called by the constructor and by
\* the host with a settings object
UpdateLock(sc) ==
    /\ ~fault
    /\ upd.pc = "idle"
    /\ m_mtx = "none"
    /\ calls < MaxCalls
    /\ upd' = [pc |-> "teardown", settings |-> sc.s, info |-> sc.h]
    /\ m_mtx' = UpdateLockScope(upd'.pc)
    /\ calls' = calls + 1
    /\ log' = [log EXCEPT !.last = {}]
    /\ cap' = "none"
    /\ UNCHANGED <<m, m_capturebufs, m_decibels, m_tsmooth_buf, m_interp_indices,
                   m_interp_bufs, rnd, host_live, host_next, registered,
                   hist, constructed, fault>>

\* release_audio_capture(); free_fft();
UpdateTeardown ==
    /\ ~fault
    /\ upd.pc = "teardown"
    /\ LET a == release_audio_capture(Audio)
       IN  /\ m' = free_fft(a.m)
           /\ m_capturebufs' = a.bufs
           /\ registered' = a.reg
           /\ hist' = a.hist
    /\ m_decibels' = [i \in Chan |-> <<>>]
    /\ m_tsmooth_buf' = [i \in Chan |-> <<>>]
    /\ upd' = [upd EXCEPT !.pc = "settings"]
    /\ m_mtx' = UpdateLockScope(upd'.pc)
    /\ log' = [log EXCEPT !.last = {}]
    /\ cap' = "none"
    /\ UNCHANGED <<m_interp_indices, m_interp_bufs, rnd, host_live,
                   host_next, calls, constructed, fault>>

\* update_audio_info: the fallback when obs_get_audio_info fails
update_audio_info(h) ==
    IF h.audio_ok
    THEN [samples_per_sec |-> h.samples_per_sec, speakers |-> h.speakers]
    ELSE [samples_per_sec |-> FALLBACK_SAMPLE_RATE, speakers |-> "UNKNOWN"]

\* a channel count taken from the host as it is
CaptureChannels_Unclamped(speakers) == get_audio_channels(speakers)

\* std::min(get_audio_channels(m_audio_info.speakers), 2u)
CaptureChannels(speakers) == Min(get_audio_channels(speakers), MAX_CAPTURE_CHANNELS)

\* an automatic size that is not aligned
AutoFFTSize_Unaligned(sps, fps_num, fps_den) ==
    LET sz == (sps * fps_den) \div fps_num
    IN  IF sz < MIN_FFT_SIZE THEN MIN_FFT_SIZE ELSE sz

\* size_t(samples_per_sec / m_fps) & -16, at least 128
AutoFFTSize(sps, fps_num, fps_den) ==
    LET sz == AlignDown((sps * fps_den) \div fps_num)
    IN  IF sz < MIN_FFT_SIZE THEN MIN_FFT_SIZE ELSE sz

\* get_settings(settings); the audio and video info; the automatic size
UpdateGetSettings ==
    /\ ~fault
    /\ upd.pc = "settings"
    /\ LET m1   == get_settings(m, upd.settings)
           ai   == update_audio_info(upd.info)
           nch  == CaptureChannels(ai.speakers)
           fnum == IF upd.info.video_ok THEN upd.info.fps_num ELSE FALLBACK_FPS
           fden == IF upd.info.video_ok THEN upd.info.fps_den ELSE 1
       IN  /\ m' = [m1 EXCEPT
                       !.samples_per_sec = ai.samples_per_sec,
                       !.capture_channels = nch,
                       !.fps_num = fnum,
                       !.fps_den = fden,
                       !.fft_size = IF m1.auto_fft_size
                                    THEN AutoFFTSize(ai.samples_per_sec, fnum, fden)
                                    ELSE m1.fft_size]
           /\ log' = [log EXCEPT !.last = IF nch = 0 THEN {"channels"} ELSE {}]
    /\ upd' = [upd EXCEPT !.pc = "alloc"]
    /\ m_mtx' = UpdateLockScope(upd'.pc)
    /\ cap' = "none"
    /\ UNCHANGED <<m_capturebufs, m_decibels, m_tsmooth_buf, m_interp_indices,
                   m_interp_bufs, rnd, host_live, host_next, registered,
                   hist, calls, constructed, fault>>

\* an update that leaves the buffers as recapture_audio left them
ZeroRefill_None(buf, bufsz) == buf

\* the zero refill of update: every buffer holds at least bufsz bytes
ZeroRefill(buf, bufsz) ==
    IF cb_size(buf) < bufsz
    THEN circlebuf_push_back_zero(buf, bufsz - cb_size(buf))
    ELSE buf

\* the spectrum buffers; m_retries = 0; recapture_audio(); the zero refill
UpdateAlloc ==
    /\ ~fault
    /\ upd.pc = "alloc"
    /\ LET outch == IF m.capture_channels > 1 \/ m.stereo THEN 2 ELSE 1
           a0 == [Audio EXCEPT !.log.last = {},
                               !.m.output_channels = outch,
                               !.m.last_silent = FALSE,
                               !.m.retries = 0,
                               !.log.streak = 0]
           a  == recapture_audio(a0)
           bufsz == a.m.fft_size * SIZEOF_FLOAT
       IN  /\ m' = a.m
           /\ m_decibels' = [i \in Chan |-> IF i < outch
                                 THEN [j \in 1..(m.fft_size \div 2) |-> DB_MIN * FX]
                                 ELSE m_decibels[i]]
           /\ m_tsmooth_buf' = [i \in Chan |-> IF i < outch /\ m.tsmoothing # "none"
                                    THEN [j \in 1..(m.fft_size \div 2) |-> 0]
                                    ELSE m_tsmooth_buf[i]]
           /\ registered' = a.reg
           /\ log' = a.log
           /\ m_capturebufs' = [i \in Chan |-> ZeroRefill(a.bufs[i], bufsz)]
           /\ hist' = [i \in Chan |-> ZeroRefill(a.hist[i], bufsz)]
    /\ upd' = [upd EXCEPT !.pc = "interp"]
    /\ m_mtx' = UpdateLockScope(upd'.pc)
    /\ cap' = "none"
    /\ UNCHANGED <<m_interp_indices, m_interp_bufs, rnd, host_live,
                   host_next, calls, constructed, fault>>

\* a bar count that needs more than a full bar of remainder for the last bar
NumBars_Greater(width, bar_width, bar_gap) ==
    LET bar_stride == bar_width + bar_gap
        n == width \div bar_stride
    IN  IF (width - (n * bar_stride)) > bar_width THEN n + 1 ELSE n

\* the number of bars that fit into the width
NumBars(width, bar_width, bar_gap) ==
    LET bar_stride == bar_width + bar_gap
        n == width \div bar_stride
    IN  IF (width - (n * bar_stride)) >= bar_width THEN n + 1 ELSE n

\* std::vector<float>::resize: the first n entries kept, new entries 0
Resize(buf, n) == [k \in 1..n |-> IF k <= Len(buf) THEN buf[k] ELSE 0]

\* what m_width / bar_stride can yield for a stride of 0 when the division
\* does not trap
DivByZeroQuotients == {0}

\* the index table and the output buffers; the lock is released on return.
\* A bar stride of 0 divides by zero: the division traps, or it yields a
\* quotient and update goes on with it.
UpdateInterp ==
    /\ ~fault
    /\ upd.pc = "interp"
    /\ IF m.display_mode = "curve"
       THEN /\ m_interp_indices' = init_interp(m, m.width)
            /\ m_interp_bufs' = [i \in Chan |-> Resize(m_interp_bufs[i], m.width)]
            /\ m' = m
            /\ fault' = FALSE
       ELSE IF m.bar_width + m.bar_gap = 0
       THEN \/ /\ fault' = TRUE
               /\ UNCHANGED <<m, m_interp_indices, m_interp_bufs>>
            \/ \E q \in DivByZeroQuotients :
                  LET n == IF (m.width - (q * 0)) >= m.bar_width THEN q + 1 ELSE q
                  IN  /\ m' = [m EXCEPT !.num_bars = n]
                      /\ m_interp_indices' = init_interp(m, n + 1)
                      /\ m_interp_bufs' = [i \in Chan |-> Resize(m_interp_bufs[i], n)]
                      /\ fault' = FALSE
       ELSE LET n == NumBars(m.width, m.bar_width, m.bar_gap)
            IN  /\ m' = [m EXCEPT !.num_bars = n]
                /\ m_interp_indices' = init_interp(m, n + 1)
                /\ m_interp_bufs' = [i \in Chan |-> Resize(m_interp_bufs[i], n)]
                /\ fault' = FALSE
    /\ upd' = IF fault' THEN upd ELSE [upd EXCEPT !.pc = "idle"]
    /\ m_mtx' = UpdateLockScope(upd'.pc)
    /\ constructed' = IF fault' THEN constructed ELSE TRUE
    /\ log' = [log EXCEPT !.last = {}]
    /\ cap' = "none"
    /\ UNCHANGED <<m_capturebufs, m_decibels, m_tsmooth_buf, rnd, host_live, host_next,
                   registered, hist, calls>>

\* --------------------------------------------------------- capture_audio
\* a capture that does not look at the lock
TryLock_Ignored(mtx) == mtx \in {"none", "update", "render"}

\* m_mtx.try_lock_for(10 ms): the lock is taken unless it stays held
TryLock(mtx) == mtx = "none"

\* the most bytes a capture buffer keeps
CaptureLimit(fft_size) == fft_size * SIZEOF_FLOAT * 2

\* a trim that pops the limit instead of the excess
TrimFront_PopsLimit(buf, fft_size) ==
    LET total == cb_size(buf)
        max   == fft_size * SIZEOF_FLOAT * 2
    IN  IF total > max THEN circlebuf_pop_front(buf, max) ELSE buf

\* a trim that drops the newest bytes
TrimFront_DropsNewest(buf, fft_size) ==
    LET total == cb_size(buf)
        max   == fft_size * SIZEOF_FLOAT * 2
    IN  IF total > max THEN SubSeq(buf, 1, max \div SIZEOF_FLOAT) ELSE buf

\* the trim of capture_audio: pop from the front what exceeds the limit
TrimFront(buf, fft_size) ==
    LET total == cb_size(buf)
        max   == CaptureLimit(fft_size)
    IN  IF total > max THEN circlebuf_pop_front(buf, total - max) ELSE buf

\* a muted call that pushes the supplied samples all the same
PushChannel_IgnoresMute(buf, data, sz, muted, fft_size) ==
    TrimFront(circlebuf_push_back(buf, data, sz), fft_size)

\* one channel of capture_audio: the push, then the trim
PushChannel(buf, data, sz, muted, fft_size) ==
    TrimFront(IF muted THEN circlebuf_push_back_zero(buf, sz)
                       ELSE circlebuf_push_back(buf, data, sz),
              fft_size)

\* a capture that goes on without a source
Detached_Never(audio_source) == audio_source # audio_source

\* if(m_audio_source == nullptr) return;
Detached(audio_source) == audio_source = NoSource

\* audio->data[i]: the samples are numbered by their position in the stream
AudioData(i, frames) == Stamped(Len(hist[i]) + 1, frames)

CaptureAudio(frames, muted) ==
    /\ ~fault
    /\ upd.pc # "destroyed"
    /\ calls < MaxCalls
    /\ calls' = calls + 1
    /\ IF ~TryLock(m_mtx)
       THEN /\ cap' = "dropped"
            /\ UNCHANGED <<m_capturebufs, hist>>
       ELSE IF Detached(m.audio_source)
       THEN /\ cap' = "detached"
            /\ UNCHANGED <<m_capturebufs, hist>>
       ELSE LET sz == frames * SIZEOF_FLOAT
            IN  /\ cap' = "pushed"
                /\ m_capturebufs' =
                       [i \in Chan |->
                           IF i < m.capture_channels
                           THEN PushChannel(m_capturebufs[i], AudioData(i, frames),
                                            sz, muted, m.fft_size)
                           ELSE m_capturebufs[i]]
                /\ hist' =
                       [i \in Chan |->
                           IF i < m.capture_channels
                           THEN IF muted
                                THEN circlebuf_push_back_zero(hist[i], sz)
                                ELSE circlebuf_push_back(hist[i], AudioData(i, frames), sz)
                           ELSE hist[i]]
    /\ log' = [log EXCEPT !.last = {}]
    /\ UNCHANGED <<m, m_decibels, m_tsmooth_buf, m_interp_indices, m_interp_bufs, m_mtx,
                   upd, rnd, host_live, host_next, registered, constructed,
                   fault>>

\* ---------------------------------------------------------------- render
\* render reads m_display_mode and calls render_curve or render_bars
RenderBegin ==
    /\ ~fault
    /\ constructed
    /\ upd.pc # "destroyed"
    /\ rnd.pc = "idle"
    /\ rnd' = [pc |-> "dispatched", mode |-> m.display_mode]
    /\ log' = [log EXCEPT !.last = {}]
    /\ cap' = "none"
    /\ UNCHANGED <<m, m_capturebufs, m_decibels, m_tsmooth_buf, m_interp_indices,
                   m_interp_bufs, m_mtx, upd, host_live, host_next,
                   registered, hist, calls, constructed, fault>>

\* std::lock_guard lock(m_mtx) of render_curve and of render_bars
RenderLock ==
    /\ ~fault
    /\ rnd.pc = "dispatched"
    /\ m_mtx = "none"
    /\ m_mtx' = "render"
    /\ rnd' = [rnd EXCEPT !.pc = "locked"]
    /\ log' = [log EXCEPT !.last = {}]
    /\ cap' = "none"
    /\ UNCHANGED <<m, m_capturebufs, m_decibels, m_tsmooth_buf, m_interp_indices,
                   m_interp_bufs, upd, host_live, host_next, registered,
                   hist, calls, constructed, fault>>

RenderChannels == IF m.stereo THEN {0, 1} ELSE {0}

\* render_curve indexes the table and the output buffers up to m_width and
\* the spectrum at (int)index
CurveOutOfBounds ==
    \/ Len(m_interp_indices) < m.width
    \/ \E ch \in RenderChannels : Len(m_interp_bufs[ch]) < m.width
    \/ /\ m.interp_mode = "point"
       /\ \E i \in 1..Min(m.width, Len(m_interp_indices)) :
              \/ IsNaN(m_interp_indices[i])
              \/ \E ch \in RenderChannels :
                     Trunc(m_interp_indices[i]) >= Len(m_decibels[ch])

\* render_bars indexes the table up to m_num_bars + 1, the output buffers up
\* to m_num_bars and the spectrum from (int)index[i] to (int)index[i + 1]
BarsOutOfBounds ==
    /\ m.num_bars >= 1
    /\ \/ Len(m_interp_indices) < m.num_bars + 1
       \/ \E ch \in RenderChannels : Len(m_interp_bufs[ch]) < m.num_bars
       \/ /\ m.interp_mode = "point"
          /\ \E i \in 1..Min(m.num_bars, Len(m_interp_indices) - 1) :
                 \/ IsNaN(m_interp_indices[i])
                 \/ IsNaN(m_interp_indices[i + 1])
                 \/ \E ch \in RenderChannels :
                        \/ Trunc(m_interp_indices[i]) >= Len(m_decibels[ch])
                        \/ Trunc(m_interp_indices[i + 1]) > Len(m_decibels[ch])

\* the part of the state that render_curve and render_bars work on
Frame == [m |-> m, dec |-> m_decibels, idx |-> m_interp_indices, bufs |-> m_interp_bufs]

\* what a read outside an array can yield when it does not fault
Garbage == {0, DB_MIN * FX}

\* m_decibels[channel][pos]
SpectrumAt(dec, pos, g) == IF 0 <= pos /\ pos < Len(dec) THEN dec[pos + 1] ELSE g

\* m_stereo ? center : bottom
CenterPos(mm) ==
    IF mm.stereo THEN ((mm.height * FX) \div 2) + (FX \div 2)
                 ELSE (mm.height * FX) + (FX \div 2)

\* lerp(0.5f, cpos, std::clamp(m_ceiling - v, 0.0f, (float)dbrange) / dbrange)
MapOffset(mm, v) ==
    LET dbrange == (mm.ceiling - mm.floor) * FX
    IN  lerp(FX \div 2, CenterPos(mm),
             FloatDiv(Clamp((mm.ceiling * FX) - v, 0, dbrange), dbrange))

\* the columns that the mapping loop of render_curve visits
CurveStep(render_mode) == IF render_mode = "line" THEN 1 ELSE 2

\* the spectrum bins that the averaging loop of bar i reads (do ... while)
BarBins(idx, i) ==
    LET pos  == Trunc(idx[i])
        stop == Trunc(idx[i + 1])
    IN  pos..Max(pos, stop - 1)

RECURSIVE SumBins(_, _, _)
SumBins(dec, bins, g) ==
    IF bins = {} THEN 0
    ELSE LET pos == CHOOSE b \in bins : TRUE
         IN  SpectrumAt(dec, pos, g) + SumBins(dec, bins \ {pos}, g)

\* a render_curve that maps the spectrum where it lies
render_curve_InPlace(f, g) ==
    [f EXCEPT !.dec = [ch \in Chan |->
        IF ch < (IF f.m.stereo THEN 2 ELSE 1)
        THEN [j \in 1..Len(f.dec[ch]) |-> MapOffset(f.m, f.dec[ch][j])]
        ELSE f.dec[ch]]]

\* render_curve, point resampling: every column takes the spectrum value at
\* (int)index, then every step-th column is mapped to its vertical offset
render_curve(f, g) ==
    [f EXCEPT !.bufs = [ch \in Chan |->
        IF ch < (IF f.m.stereo THEN 2 ELSE 1)
        THEN [i \in 1..Len(f.bufs[ch]) |->
                 IF i > f.m.width THEN f.bufs[ch][i]
                 ELSE LET v == IF i <= Len(f.idx) /\ ~IsNaN(f.idx[i])
                               THEN SpectrumAt(f.dec[ch], Trunc(f.idx[i]), g)
                               ELSE g
                      IN  IF (i - 1) % CurveStep(f.m.render_mode) = 0
                          THEN MapOffset(f.m, v) ELSE v]
        ELSE f.bufs[ch]]]

\* render_bars, point resampling: every bar takes the mean of its bins and
\* is mapped to its vertical offset
render_bars(f, g) ==
    [f EXCEPT !.bufs = [ch \in Chan |->
        IF ch < (IF f.m.stereo THEN 2 ELSE 1)
        THEN [i \in 1..Len(f.bufs[ch]) |->
                 IF i > f.m.num_bars THEN f.bufs[ch][i]
                 ELSE LET v == IF i + 1 <= Len(f.idx) /\ ~IsNaN(f.idx[i])
                                  /\ ~IsNaN(f.idx[i + 1])
                               THEN SumBins(f.dec[ch], BarBins(f.idx, i), g)
                                        \div Cardinality(BarBins(f.idx, i))
                               ELSE g
                      IN  MapOffset(f.m, v)]
        ELSE f.bufs[ch]]]

\* the body of render_curve or render_bars, chosen by the mode that render read
RenderBody ==
    /\ ~fault
    /\ rnd.pc = "locked"
    /\ IF m.last_silent
       THEN /\ fault' = FALSE
            /\ UNCHANGED <<m_decibels, m_interp_bufs>>
       ELSE \E g \in Garbage :
              LET oob == (rnd.mode = "curve" /\ CurveOutOfBounds)
                            \/ (rnd.mode # "curve" /\ BarsOutOfBounds)
                  f   == IF rnd.mode = "curve" THEN render_curve(Frame, g)
                                               ELSE render_bars(Frame, g)
              IN  /\ fault' \in (IF oob THEN BOOLEAN ELSE {FALSE})
                  /\ m_decibels' = f.dec
                  /\ m_interp_bufs' = f.bufs
    /\ m_mtx' = "none"
    /\ rnd' = [rnd EXCEPT !.pc = "idle"]
    /\ log' = [log EXCEPT !.last = {}]
    /\ cap' = "none"
    /\ UNCHANGED <<m, m_capturebufs, m_tsmooth_buf, m_interp_indices,
                   upd, host_live, host_next, registered,
                   hist, calls, constructed>>

\* ------------------------------------------------------------------ tick
\* tick retries the capture: recapture_audio() under the lock
TickRecapture ==
    /\ ~fault
    /\ constructed
    /\ upd.pc # "destroyed"
    /\ m_mtx = "none"
    /\ calls < MaxCalls
    /\ calls' = calls + 1
    /\ LET a == recapture_audio([Audio EXCEPT !.log.last = {}])
       IN  /\ m' = a.m
           /\ m_capturebufs' = a.bufs
           /\ registered' = a.reg
           /\ log' = a.log
           /\ hist' = a.hist
    /\ cap' = "none"
    /\ UNCHANGED <<m_decibels, m_tsmooth_buf, m_interp_indices, m_interp_bufs, m_mtx, upd,
                   rnd, host_live, host_next, constructed, fault>>

\* ----------------------------------------------------------- ~WAVSource
\* the destructor, called when no other call into the instance is under way:
\* lock_guard; release_audio_capture(); free_fft(); circlebuf_free
Destroy ==
    /\ ~fault
    /\ constructed
    /\ upd.pc = "idle"
    /\ rnd.pc = "idle"
    /\ m_mtx = "none"
    /\ LET a == release_audio_capture(Audio)
       IN  /\ m' = free_fft(a.m)
           /\ m_capturebufs' = a.bufs
           /\ registered' = a.reg
           /\ hist' = a.hist
    /\ m_decibels' = [i \in Chan |-> <<>>]
    /\ m_tsmooth_buf' = [i \in Chan |-> <<>>]
    /\ upd' = [upd EXCEPT !.pc = "destroyed"]
    /\ log' = [log EXCEPT !.last = {}]
    /\ cap' = "none"
    /\ UNCHANGED <<m_interp_indices, m_interp_bufs, m_mtx, rnd, host_live,
                   host_next, calls, constructed, fault>>

\* ------------------------------------------------------------------ host
\* the host creates an audio source named "mic"
HostCreateSource ==
    /\ ~fault
    /\ host_live = NoSource
    /\ host_next < MaxSources
    /\ host_next' = host_next + 1
    /\ host_live' = host_next + 1
    /\ log' = [log EXCEPT !.last = {}]
    /\ cap' = "none"
    /\ UNCHANGED <<m, m_capturebufs, m_decibels, m_tsmooth_buf, m_interp_indices,
                   m_interp_bufs, m_mtx, upd, rnd, registered, hist, calls,
                   constructed, fault>>

\* the host destroys it, and its callback list with it
HostDestroySource ==
    /\ ~fault
    /\ host_live # NoSource
    /\ host_live' = NoSource
    /\ registered' = registered \ {host_live}
    /\ log' = [log EXCEPT !.last = {}]
    /\ cap' = "none"
    /\ UNCHANGED <<m, m_capturebufs, m_decibels, m_tsmooth_buf, m_interp_indices,
                   m_interp_bufs, m_mtx, upd, rnd, host_next, hist, calls,
                   constructed, fault>>

\* ------------------------------------------------------------------ Spec
Next ==
    \/ \E sc \in Scenarios : UpdateLock(sc)
    \/ UpdateTeardown
    \/ UpdateGetSettings
    \/ UpdateAlloc
    \/ UpdateInterp
    \/ \E frames \in FrameCounts, muted \in BOOLEAN : CaptureAudio(frames, muted)
    \/ RenderBegin
    \/ RenderLock
    \/ RenderBody
    \/ TickRecapture
    \/ Destroy
    \/ HostCreateSource
    \/ HostDestroySource

Spec == Init /\ [][Next]_vars

\* ------------------------------------------- get_settings on its own
MinRequested == 20    \* requested window sizes go down to -MinRequested
MaxRequested == 300   \* largest requested window size

\* a settings object is handed to get_settings
InitSettings ==
    /\ NewInstance
    /\ host_live = NoSource
    /\ host_next = 0
    /\ \E n \in (-MinRequested)..MaxRequested :
           upd = [pc |-> "call", settings |-> [BaseSettings EXCEPT !.fft_size = n],
                  info |-> HostNoInfo]

GetSettingsCall ==
    /\ upd.pc = "call"
    /\ m' = get_settings(m, upd.settings)
    /\ upd' = [upd EXCEPT !.pc = "returned"]
    /\ UNCHANGED <<m_capturebufs, m_decibels, m_tsmooth_buf, m_interp_indices, m_interp_bufs,
                   m_mtx, rnd, host_live, host_next, registered, log, cap, hist,
                   calls, constructed, fault>>

NextSettings == GetSettingsCall

SpecSettings == InitSettings /\ [][NextSettings]_vars

\* ------------------------------------------------------------ properties
\* update has returned and no other update is in progress
Updated == constructed /\ upd.pc = "idle"

\* the step is a call of capture_audio
CaptureStep == cap' # "none"

\* C1: every capture buffer holds at most 2 x N x 4 bytes, and a
\* capture_audio call that takes the lock with a source attached leaves in
\* each captured channel min(old size + frames x 4, 2 x N x 4) bytes.
C1_CaptureBounded ==
    /\ [](\A i \in Chan : cb_size(m_capturebufs[i]) <= 2 * m.fft_size * 4)
    /\ [][(CaptureStep /\ cap' = "pushed") =>
            \A i \in Chan :
                i < m.capture_channels =>
                    LET frames == Len(hist'[i]) - Len(hist[i])
                    IN  cb_size(m_capturebufs'[i]) =
                            Min(cb_size(m_capturebufs[i]) + frames * 4,
                                2 * m.fft_size * 4)]_vars

\* a push has filled a buffer to the limit and bytes were dropped
C1_Witness ==
    /\ cap = "pushed"
    /\ \E i \in Chan :
           /\ i < m.capture_channels
           /\ m.fft_size >= MIN_FFT_SIZE
           /\ cb_size(m_capturebufs[i]) = 2 * m.fft_size * 4
           /\ Len(hist[i]) > Len(m_capturebufs[i])

\* C2: drop-oldest: a buffer holds the most recent bytes pushed to it since
\* its reset, in arrival order, as many as fit into 2 x N x 4 bytes.
C2_DropOldest ==
    \A i \in Chan : m_capturebufs[i] = Suffix(hist[i], 2 * m.fft_size)

\* bytes were dropped and the newest sample pushed is the last one held
C2_Witness ==
    /\ cap = "pushed"
    /\ \E i \in Chan :
           /\ Len(hist[i]) > Len(m_capturebufs[i])
           /\ Len(m_capturebufs[i]) > 0
           /\ m_capturebufs[i][Len(m_capturebufs[i])] = Len(hist[i])
           /\ m_capturebufs[i][1] > 1

\* C3: a capture_audio call that finds m_mtx held changes no capture buffer,
\* no member, no spectrum or index state, and logs nothing.
C3_ContentionDrops ==
    [][(CaptureStep /\ m_mtx # "none") =>
          /\ cap' = "dropped"
          /\ log'.last = {}
          /\ UNCHANGED <<m, m_capturebufs, m_decibels, m_tsmooth_buf, m_interp_indices,
                         m_interp_bufs, m_mtx, registered, hist>>]_vars

\* a frame was dropped while update or render held the lock with a source
\* attached
C3_Witness ==
    /\ cap = "dropped"
    /\ m_mtx \in {"update", "render"}
    /\ m.audio_source # NoSource
    /\ m.capture_channels > 0

\* C4: the display mode by which render chose render_curve or render_bars is
\* the display mode of the configuration it then draws under the lock.
C4_RenderSnapshot ==
    rnd.pc = "locked" => rnd.mode = m.display_mode

\* the state that update leaves: window, spectrum arrays and index table
Rebuilt ==
    /\ m.fft_size >= MIN_FFT_SIZE
    /\ \A i \in Chan : i < m.output_channels => Len(m_decibels[i]) = m.fft_size \div 2
    /\ Len(m_interp_indices) =
           (IF m.display_mode = "curve" THEN m.width ELSE m.num_bars + 1)

\* C5: update holds m_mtx from its teardown to the end of its rebuild: the
\* locked bodies of render_curve, render_bars and capture_audio run only
\* while no update is in progress, on a rebuilt state.
C5_UpdateAtomic ==
    /\ [](upd.pc \notin {"idle", "destroyed"} => m_mtx = "update")
    /\ [](rnd.pc = "locked" => (upd.pc = "idle" /\ Rebuilt))
    /\ [][(CaptureStep /\ cap' = "pushed") => (upd.pc = "idle" /\ Rebuilt)]_vars

\* update is in the middle of its rebuild, window size reset, and a capture
\* was turned away
C5_Witness ==
    /\ upd.pc = "settings"
    /\ constructed
    /\ m.fft_size = 0
    /\ cap = "dropped"
    /\ rnd.pc = "dispatched"

\* C6: the effective window size is 128 for a requested size below 128 and
\* the requested size rounded down to a multiple of 16 otherwise.
C6_WindowSize ==
    upd.pc = "returned" =>
        LET n == upd.settings.fft_size
        IN  m.fft_size = IF n < 128 THEN 128 ELSE n - (n % 16)

\* C7: after get_settings the cutoff pair is (120, 17500) when the configured
\* pair had high - low < 1 and the configured pair otherwise, so that
\* cutoff_high - cutoff_low >= 1.
C7_CutoffDefaults ==
    (upd.pc \in {"alloc", "interp"} \/ Updated) =>
        LET low  == upd.settings.cutoff_low
            high == upd.settings.cutoff_high
        IN  /\ (high - low < 1) => (m.cutoff_low = 120 /\ m.cutoff_high = 17500)
            /\ (high - low >= 1) => (m.cutoff_low = low /\ m.cutoff_high = high)
            /\ m.cutoff_high - m.cutoff_low >= 1

\* update has replaced a degenerate pair
C7_Witness ==
    /\ Updated
    /\ upd.settings.cutoff_high - upd.settings.cutoff_low < 1
    /\ m.cutoff_low = 120
    /\ m.cutoff_high = 17500

\* C8: after update the index table is non-decreasing and every entry lies
\* within [1, N/2 - 1].
C8_IndexTable ==
    Updated =>
        /\ \A i \in 1..Len(m_interp_indices) :
               /\ ~IsNaN(m_interp_indices[i])
               /\ 1 * FX <= m_interp_indices[i]
               /\ m_interp_indices[i] <= ((m.fft_size \div 2) - 1) * FX
        /\ \A i \in 1..(Len(m_interp_indices) - 1) :
               m_interp_indices[i] <= m_interp_indices[i + 1]

\* C9: after update, in curve mode the index table and the output buffers
\* have width entries; in the bar modes numBars is floor(width / stride),
\* plus one when the remainder holds a bar (for a stride that is not 0), the
\* index table has numBars + 1 entries and the output buffers have numBars.
C9_Sizing ==
    Updated =>
        IF m.display_mode = "curve"
        THEN /\ Len(m_interp_indices) = m.width
             /\ \A i \in Chan : Len(m_interp_bufs[i]) = m.width
        ELSE IF m.bar_width + m.bar_gap = 0
        THEN /\ Len(m_interp_indices) = m.num_bars + 1
             /\ \A i \in Chan : Len(m_interp_bufs[i]) = m.num_bars
        ELSE LET stride == m.bar_width + m.bar_gap
                 whole  == m.width \div stride
                 bars   == IF m.width - whole * stride >= m.bar_width
                           THEN whole + 1 ELSE whole
             IN  /\ m.num_bars = bars
                 /\ Len(m_interp_indices) = bars + 1
                 /\ \A i \in Chan : Len(m_interp_bufs[i]) = bars

\* update has sized a bar display whose remainder holds one more bar
C9_Witness ==
    /\ Updated
    /\ m.display_mode = "bars"
    /\ m.bar_width + m.bar_gap > 0
    /\ m.num_bars = (m.width \div (m.bar_width + m.bar_gap)) + 1
    /\ m.num_bars >= 2
    /\ Len(m_interp_indices) = m.num_bars + 1

\* C10: between two resets by update the missing-source warning is written
\* once, on the failure that takes m_retries from 0 to 1; update's own
\* attempt starts from 0; the name "none" neither logs nor counts.
C10_LogOnce ==
    /\ [](log.streak <= 1 /\ (log.streak = 1 <=> m.retries >= 1))
    /\ []((upd.pc \in {"interp", "idle"} /\ m.audio_source_name = "none")
             => (m.retries = 0 /\ log.streak = 0))
    /\ [][/\ "source" \in log'.last =>
                 /\ log'.streak = 1
                 /\ m'.retries = 1
                 /\ m'.audio_source_name # "none"
          /\ (upd.pc = "alloc" /\ upd'.pc = "interp") => m'.retries \in {0, 1}
          /\ (m'.retries # m.retries /\ m'.retries # 0) =>
                 /\ m'.retries = m.retries + 1 \/ upd.pc = "alloc"
                 /\ m'.audio_source = NoSource]_vars

\* the source was missing twice in one streak and one warning was written
C10_Witness ==
    /\ m.retries >= 2
    /\ log.streak = 1
    /\ m.audio_source = NoSource

\* the step is the locked body of render_curve or render_bars
RenderStep == rnd.pc = "locked" /\ rnd'.pc = "idle"

\* the output of this render had the output buffers been blank before it
Redrawn(g) ==
    LET blank == [Frame EXCEPT !.bufs =
                     [ch \in Chan |-> [i \in 1..Len(m_interp_bufs[ch]) |-> 0]]]
    IN  IF rnd.mode = "curve" THEN render_curve(blank, g).bufs
                              ELSE render_bars(blank, g).bufs

\* C11: the body of render_curve or render_bars leaves the decibel spectrum,
\* the smoothing state, the capture buffers, the index table and every
\* member unchanged, and what it draws is determined by the spectrum, the
\* index table and the members alone, not by what an earlier render left in
\* the output buffers.
C11_RenderReuses ==
    [][RenderStep =>
          /\ UNCHANGED <<m, m_decibels, m_tsmooth_buf, m_capturebufs,
                         m_interp_indices>>
          /\ \E g \in Garbage :
                 \A ch \in RenderChannels :
                     \A i \in 1..Min(IF rnd.mode = "curve" THEN m.width ELSE m.num_bars,
                                     Len(m_interp_bufs[ch])) :
                         m_interp_bufs'[ch][i] = Redrawn(g)[ch][i]]_vars

\* the constructor's update was the only call and a render has drawn the
\* spectrum it left
C11_Witness ==
    /\ Updated
    /\ calls = 1
    /\ rnd.pc = "idle"
    /\ ~fault
    /\ m.width >= 2
    /\ m.display_mode = "curve"
    /\ Len(m_interp_bufs[0]) = m.width
    /\ \A i \in 1..m.width : m_interp_bufs[0][i] = CenterPos(m)
    /\ \A j \in 1..Len(m_decibels[0]) : m_decibels[0][j] = DB_MIN * FX

\* C12: after update the number of captured channels is the smaller of the
\* host's channel count and 2; update writes the channel warning exactly when
\* that number is 0, and detecting it does not fault; capture_audio changes
\* no buffer whose index is not below the number, so none at all when it is 0.
C12_ChannelClamp ==
    /\ []((upd.pc \in {"alloc", "interp"} \/ Updated) =>
             LET reported == IF ~upd.info.audio_ok THEN 0
                             ELSE IF upd.info.speakers = "MONO" THEN 1
                             ELSE IF upd.info.speakers = "STEREO" THEN 2
                             ELSE IF upd.info.speakers = "5POINT1" THEN 6
                             ELSE 0
             IN  m.capture_channels = (IF reported < 2 THEN reported ELSE 2))
    /\ [][(upd.pc = "settings" /\ upd'.pc = "alloc") =>
             /\ ("channels" \in log'.last) <=> (m'.capture_channels = 0)
             /\ ~fault']_vars
    /\ [][CaptureStep =>
             \A i \in Chan :
                 (i >= m.capture_channels) => m_capturebufs'[i] = m_capturebufs[i]]_vars

\* the host reported no speaker layout, a source is attached and a
\* capture_audio call took the lock: the buffers hold what update wrote
C12_Witness ==
    /\ Updated
    /\ upd.info.audio_ok
    /\ m.capture_channels = 0
    /\ m.audio_source # NoSource
    /\ cap = "pushed"
    /\ \A i \in Chan : m_capturebufs[i] = Zeros(m.fft_size)

\* C13: a muted capture_audio call that takes the lock with a source attached
\* appends frames x 4 zero bytes to every captured channel (and then trims),
\* none of the supplied samples, and leaves each buffer as large as the
\* unmuted call with the same frame count would have left it.
C13_MuteSilence ==
    [][\A frames \in FrameCounts :
          (CaptureAudio(frames, TRUE) /\ cap' = "pushed") =>
              \A i \in Chan :
                  i < m.capture_channels =>
                      /\ m_capturebufs'[i] =
                             Suffix(m_capturebufs[i] \o Zeros(frames), 2 * m.fft_size)
                      /\ cb_size(m_capturebufs'[i]) =
                             cb_size(Suffix(m_capturebufs[i] \o Stamped(1, frames),
                                            2 * m.fft_size))
                      /\ cb_size(m_capturebufs'[i]) =
                             Min(cb_size(m_capturebufs[i]) + frames * 4,
                                 2 * m.fft_size * 4)]_vars

\* samples were captured and then a muted call appended silence after them
C13_Witness ==
    /\ cap = "pushed"
    /\ m.capture_channels > 0
    /\ Len(m_capturebufs[0]) > m.fft_size
    /\ m_capturebufs[0][Len(m_capturebufs[0])] = 0
    /\ \E k \in 1..Len(m_capturebufs[0]) : m_capturebufs[0][k] > 0

\* C14: update never faults, whatever the settings object, and the
\* configuration it leaves can be rendered: render_curve or render_bars,
\* whichever the display mode selects, stays inside the index table, the
\* spectrum and the output buffers.
C14_NeverFatal ==
    /\ (upd.pc # "idle") => ~fault
    /\ Updated =>
           ~(IF m.display_mode = "curve" THEN CurveOutOfBounds ELSE BarsOutOfBounds)

\* C15: a render that draws (not silent, inside its arrays, by the display
\* mode of the configuration) leaves in every entry of every rendered
\* channel's output buffer, width entries in curve mode and numBars in the
\* bar modes, a vertical offset within [0, displayHeight].
C15_OutputRange ==
    [][(RenderStep /\ ~m.last_silent /\ ~fault' /\ rnd.mode = m.display_mode
           /\ ~(IF rnd.mode = "curve" THEN CurveOutOfBounds ELSE BarsOutOfBounds)) =>
          \A ch \in RenderChannels :
              \A i \in 1..(IF rnd.mode = "curve" THEN m.width ELSE m.num_bars) :
                  /\ 0 <= m_interp_bufs'[ch][i]
                  /\ m_interp_bufs'[ch][i] <= m.height * FX]_vars

\* C16: once update has sized the window, N is at least 128 and a multiple
\* of 16; with automatic sizing N is floor(samples_per_sec / fps) rounded
\* down to a multiple of 16, or 128 if that is less, with 44100 and 60 in
\* place of what the host cannot report, whatever size the user asked for.
C16_EffectiveSize ==
    (upd.pc \in {"alloc", "interp"} \/ Updated) =>
        /\ m.fft_size >= 128
        /\ m.fft_size % 16 = 0
        /\ upd.settings.auto_fft_size =>
               LET sps  == IF upd.info.audio_ok THEN upd.info.samples_per_sec ELSE 44100
                   num  == IF upd.info.video_ok THEN upd.info.fps_num ELSE 60
                   den  == IF upd.info.video_ok THEN upd.info.fps_den ELSE 1
                   per  == (sps * den) \div num
                   down == per - (per % 16)
               IN  m.fft_size = IF down > 128 THEN down ELSE 128

\* the host reported nothing: 44100 / 60 = 735 gave a window of 720, not the
\* size in the settings object
C16_Witness ==
    /\ Updated
    /\ upd.settings.auto_fft_size
    /\ ~upd.info.audio_ok
    /\ ~upd.info.video_ok
    /\ m.fft_size = 720
    /\ upd.settings.fft_size # m.fft_size

\* C17: after a completed update with point resampling, every spectrum bin
\* that render reads by the index table lies within [1, N/2 - 1]: the bin
\* (int)index[i] of each column in curve mode, and in the bar modes the bins
\* of each bar's averaging loop, of which there is at least one.
C17_ValidBins ==
    (Updated /\ m.interp_mode = "point") =>
        LET maxbin == (m.fft_size \div 2) - 1
        IN  IF m.display_mode = "curve"
            THEN \A i \in 1..m.width :
                     /\ ~IsNaN(m_interp_indices[i])
                     /\ 1 <= Trunc(m_interp_indices[i])
                     /\ Trunc(m_interp_indices[i]) <= maxbin
            ELSE \A i \in 1..m.num_bars :
                     /\ ~IsNaN(m_interp_indices[i])
                     /\ ~IsNaN(m_interp_indices[i + 1])
                     /\ BarBins(m_interp_indices, i) # {}
                     /\ \A b \in BarBins(m_interp_indices, i) : 1 <= b /\ b <= maxbin

\* every capture buffer holds the N x 4 zero bytes that update writes
ZeroFilled == \A i \in Chan : m_capturebufs[i] = Zeros(m.fft_size)

\* the step is a call of recapture_audio from outside update
RecaptureStep ==
    /\ upd.pc = "idle"
    /\ upd'.pc = "idle"
    /\ calls' = calls + 1
    /\ cap' = "none"

\* C18 as stated: when update does not find the source, no capture is
\* attached, capture_audio calls change no buffer, and as long as no
\* recapture succeeds each buffer keeps the N x 4 zero bytes of update.
C18_KeepsSilence ==
    /\ []((upd.pc = "interp" /\ m.audio_source = NoSource) =>
             (registered = {} /\ ZeroFilled))
    /\ [][(CaptureStep /\ m.audio_source = NoSource) =>
             UNCHANGED <<m_capturebufs>>]_vars
    /\ [][(upd.pc = "idle" /\ upd'.pc = "idle" /\ ZeroFilled
              /\ m.audio_source = NoSource /\ m'.audio_source = NoSource) =>
             UNCHANGED <<m_capturebufs>>]_vars

\* C18, amended: when update does not find the source, no capture is
\* attached and each buffer holds N x 4 zero bytes; while no source is
\* attached no capture_audio call changes a buffer, and the buffers keep
\* those bytes until the next recapture_audio call, which empties them
\* whether or not it finds the source.
C18_DetachedSilence ==
    /\ []((upd.pc = "interp" /\ m.audio_source = NoSource) =>
             (registered = {} /\ ZeroFilled))
    /\ [][(CaptureStep /\ m.audio_source = NoSource) =>
             (cap' \in {"detached", "dropped"} /\ UNCHANGED <<m_capturebufs>>)]_vars
    /\ [][(upd.pc = "idle" /\ upd'.pc = "idle" /\ ZeroFilled
              /\ m.audio_source = NoSource) =>
             IF RecaptureStep
             THEN \A i \in Chan : m_capturebufs'[i] = <<>>
             ELSE UNCHANGED <<m_capturebufs>>]_vars

\* the source named in the settings does not exist: update has warned once,
\* a capture_audio call arrived all the same and the buffers hold N zeros
C18_Witness ==
    /\ Updated
    /\ m.audio_source_name = "mic"
    /\ m.audio_source = NoSource
    /\ m.retries = 1
    /\ m.capture_channels > 0
    /\ cap = "detached"
    /\ ZeroFilled

\* every capture buffer holds at least N x 4 and at most 2 x N x 4 bytes
WindowAvailable ==
    \A i \in Chan :
        /\ m.fft_size * 4 <= cb_size(m_capturebufs[i])
        /\ cb_size(m_capturebufs[i]) <= 2 * m.fft_size * 4

\* C19: when update returns, both capture buffers hold exactly N x 4 zero
\* bytes; a capture_audio call keeps every buffer size within
\* [N x 4, 2 x N x 4] if it was there before; a recapture_audio call outside
\* update leaves every buffer empty; no other step outside update and
\* destruction changes a buffer.
C19_ZeroPrefill ==
    /\ [](upd.pc = "interp" => ZeroFilled)
    /\ [][(upd.pc = "interp" /\ upd'.pc = "idle") => (ZeroFilled /\ ZeroFilled')]_vars
    /\ [][(CaptureStep /\ WindowAvailable) => WindowAvailable']_vars
    /\ [][RecaptureStep => \A i \in Chan : cb_size(m_capturebufs'[i]) = 0]_vars
    /\ [][(upd.pc = "idle" /\ upd'.pc = "idle" /\ ~CaptureStep /\ ~RecaptureStep)
             => UNCHANGED <<m_capturebufs>>]_vars

\* captured samples have been appended to the zero bytes of update and the
\* buffer is between one and two windows long
C19_Witness ==
    /\ Updated
    /\ cap = "pushed"
    /\ m.capture_channels > 0
    /\ m.fft_size * 4 < cb_size(m_capturebufs[0])
    /\ cb_size(m_capturebufs[0]) < 2 * m.fft_size * 4
    /\ SubSeq(m_capturebufs[0], 1, m.fft_size) = Zeros(m.fft_size)
    /\ m_capturebufs[0][Len(m_capturebufs[0])] > 0

\* the step runs recapture_audio: in update, or from outside it
AttachStep == (upd.pc = "alloc" /\ upd'.pc = "interp") \/ RecaptureStep

\* what every recapture and the destructor leave behind, whichever they
\* found: at most one registration, on the source now referred to, the
\* previous one removed, none at all when the lookup fails or after the
\* destructor
RegistrationSteps ==
    /\ [](Cardinality(registered) <= 1)
    /\ [](registered \subseteq {m.audio_source})
    /\ [][AttachStep =>
             /\ registered' \subseteq {m'.audio_source}
             /\ (m.audio_source # m'.audio_source) => (m.audio_source \notin registered')
             /\ (obs_get_source_by_name(m'.audio_source_name) = NoSource) =>
                    (m'.audio_source = NoSource /\ registered' = {})
             /\ (obs_get_source_by_name(m'.audio_source_name) # NoSource) =>
                    (registered' = {m'.audio_source}
                       /\ m'.audio_source = obs_get_source_by_name(m'.audio_source_name))]_vars
    /\ [](upd.pc = "destroyed" => (registered = {} /\ m.audio_source = NoSource))

\* C20 as stated: at most one registration, every recapture replaces the
\* previous one, none is left after destruction, and the held reference is
\* non-null exactly when a registration is in place.
C20_OneRegistration ==
    /\ RegistrationSteps
    /\ []((m.audio_source # NoSource) <=> (registered = {m.audio_source}))

\* C20, amended: at most one registration, every recapture replaces the
\* previous one, none is left after destruction; a registration is in place
\* exactly when the held reference is non-null and the source it refers to
\* still exists.
C20_SingleRegistration ==
    /\ RegistrationSteps
    /\ []((registered = {m.audio_source}) <=>
             (m.audio_source # NoSource
                /\ obs_weak_source_get_source(m.audio_source) # NoSource))

\* an update has moved the capture from "mic", which still exists, to "aux"
C20_Witness ==
    /\ Updated
    /\ calls >= 2
    /\ host_live # NoSource
    /\ host_live # AuxSource
    /\ m.audio_source = AuxSource
    /\ registered = {AuxSource}

====
